---- MODULE Spec2Model ----
(***************************************************************************)
(* go-crypto-layer: AES in electronic-codebook mode with a fixed padding,  *)
(* the key folding of NewAESECB, and the reflective traversal that         *)
(* encrypts and decrypts the tagged string fields of a struct in place.    *)
(*                                                                         *)
(* Strings and byte slices are sequences of bytes (0..255).  A Go string   *)
(* conversion string([]byte) / []byte(string) copies the bytes unchanged.  *)
(* A call result is a record [ret, err]; err = "nil" is Go's nil error.    *)
(***************************************************************************)
EXTENDS Integers, Sequences, FiniteSets, TLC

\* aes.BlockSize
BlockSize == 16
\* AESSize allowed values
AES128 == 128
AES256 == 256

\* The errors the package returns.
ErrNil == "nil"
ErrInvalidAlgorithm == "aesecb: invalid encryption algorithm"
ErrKeySize == "crypto/aes: invalid key size"
ErrFieldType == "Field must be a string or a pointer to a string to be decrypted"
\* a run-time panic, which ends the program
ErrPanic == "panic: reflect: call of reflect.Value.Field on zero Value"

(***************************************************************************)
(* crypto/aes (FIPS 197), the block cipher behind aes.NewCipher,           *)
(* cipher.Encrypt and cipher.Decrypt.                                      *)
(***************************************************************************)
SBox ==
  <<
     99, 124, 119, 123, 242, 107, 111, 197, 48, 1, 103, 43, 254, 215, 171, 118,
     202, 130, 201, 125, 250, 89, 71, 240, 173, 212, 162, 175, 156, 164, 114, 192,
     183, 253, 147, 38, 54, 63, 247, 204, 52, 165, 229, 241, 113, 216, 49, 21,
     4, 199, 35, 195, 24, 150, 5, 154, 7, 18, 128, 226, 235, 39, 178, 117,
     9, 131, 44, 26, 27, 110, 90, 160, 82, 59, 214, 179, 41, 227, 47, 132,
     83, 209, 0, 237, 32, 252, 177, 91, 106, 203, 190, 57, 74, 76, 88, 207,
     208, 239, 170, 251, 67, 77, 51, 133, 69, 249, 2, 127, 80, 60, 159, 168,
     81, 163, 64, 143, 146, 157, 56, 245, 188, 182, 218, 33, 16, 255, 243, 210,
     205, 12, 19, 236, 95, 151, 68, 23, 196, 167, 126, 61, 100, 93, 25, 115,
     96, 129, 79, 220, 34, 42, 144, 136, 70, 238, 184, 20, 222, 94, 11, 219,
     224, 50, 58, 10, 73, 6, 36, 92, 194, 211, 172, 98, 145, 149, 228, 121,
     231, 200, 55, 109, 141, 213, 78, 169, 108, 86, 244, 234, 101, 122, 174, 8,
     186, 120, 37, 46, 28, 166, 180, 198, 232, 221, 116, 31, 75, 189, 139, 138,
     112, 62, 181, 102, 72, 3, 246, 14, 97, 53, 87, 185, 134, 193, 29, 158,
     225, 248, 152, 17, 105, 217, 142, 148, 155, 30, 135, 233, 206, 85, 40, 223,
     140, 161, 137, 13, 191, 230, 66, 104, 65, 153, 45, 15, 176, 84, 187, 22
  >>

InvSBox ==
  <<
     82, 9, 106, 213, 48, 54, 165, 56, 191, 64, 163, 158, 129, 243, 215, 251,
     124, 227, 57, 130, 155, 47, 255, 135, 52, 142, 67, 68, 196, 222, 233, 203,
     84, 123, 148, 50, 166, 194, 35, 61, 238, 76, 149, 11, 66, 250, 195, 78,
     8, 46, 161, 102, 40, 217, 36, 178, 118, 91, 162, 73, 109, 139, 209, 37,
     114, 248, 246, 100, 134, 104, 152, 22, 212, 164, 92, 204, 93, 101, 182, 146,
     108, 112, 72, 80, 253, 237, 185, 218, 94, 21, 70, 87, 167, 141, 157, 132,
     144, 216, 171, 0, 140, 188, 211, 10, 247, 228, 88, 5, 184, 179, 69, 6,
     208, 44, 30, 143, 202, 63, 15, 2, 193, 175, 189, 3, 1, 19, 138, 107,
     58, 145, 17, 65, 79, 103, 220, 234, 151, 242, 207, 206, 240, 180, 230, 115,
     150, 172, 116, 34, 231, 173, 53, 133, 226, 249, 55, 232, 28, 117, 223, 110,
     71, 241, 26, 113, 29, 41, 197, 137, 111, 183, 98, 14, 170, 24, 190, 27,
     252, 86, 62, 75, 198, 210, 121, 32, 154, 219, 192, 254, 120, 205, 90, 244,
     31, 221, 168, 51, 136, 7, 199, 49, 177, 18, 16, 89, 39, 128, 236, 95,
     96, 81, 127, 169, 25, 181, 74, 13, 45, 229, 122, 159, 147, 201, 156, 239,
     160, 224, 59, 77, 174, 42, 245, 176, 200, 235, 187, 60, 131, 83, 153, 97,
     23, 43, 4, 126, 186, 119, 214, 38, 225, 105, 20, 99, 85, 33, 12, 125
  >>

NibbleXor ==
  <<
     <<0, 1, 2, 3, 4, 5, 6, 7, 8, 9, 10, 11, 12, 13, 14, 15>>,
     <<1, 0, 3, 2, 5, 4, 7, 6, 9, 8, 11, 10, 13, 12, 15, 14>>,
     <<2, 3, 0, 1, 6, 7, 4, 5, 10, 11, 8, 9, 14, 15, 12, 13>>,
     <<3, 2, 1, 0, 7, 6, 5, 4, 11, 10, 9, 8, 15, 14, 13, 12>>,
     <<4, 5, 6, 7, 0, 1, 2, 3, 12, 13, 14, 15, 8, 9, 10, 11>>,
     <<5, 4, 7, 6, 1, 0, 3, 2, 13, 12, 15, 14, 9, 8, 11, 10>>,
     <<6, 7, 4, 5, 2, 3, 0, 1, 14, 15, 12, 13, 10, 11, 8, 9>>,
     <<7, 6, 5, 4, 3, 2, 1, 0, 15, 14, 13, 12, 11, 10, 9, 8>>,
     <<8, 9, 10, 11, 12, 13, 14, 15, 0, 1, 2, 3, 4, 5, 6, 7>>,
     <<9, 8, 11, 10, 13, 12, 15, 14, 1, 0, 3, 2, 5, 4, 7, 6>>,
     <<10, 11, 8, 9, 14, 15, 12, 13, 2, 3, 0, 1, 6, 7, 4, 5>>,
     <<11, 10, 9, 8, 15, 14, 13, 12, 3, 2, 1, 0, 7, 6, 5, 4>>,
     <<12, 13, 14, 15, 8, 9, 10, 11, 4, 5, 6, 7, 0, 1, 2, 3>>,
     <<13, 12, 15, 14, 9, 8, 11, 10, 5, 4, 7, 6, 1, 0, 3, 2>>,
     <<14, 15, 12, 13, 10, 11, 8, 9, 6, 7, 4, 5, 2, 3, 0, 1>>,
     <<15, 14, 13, 12, 11, 10, 9, 8, 7, 6, 5, 4, 3, 2, 1, 0>>
  >>

Rcon == <<1, 2, 4, 8, 16, 32, 64, 128, 27, 54>>

\* a ^ b on bytes
Xor(a, b) ==
  NibbleXor[(a \div 16) + 1][(b \div 16) + 1] * 16
    + NibbleXor[(a % 16) + 1][(b % 16) + 1]

\* Multiplication by x in GF(2^8) modulo x^8 + x^4 + x^3 + x + 1.
XTime(a) == IF a >= 128 THEN Xor((2 * a) % 256, 27) ELSE 2 * a

\* The multiples MixColumns and its inverse use, tabulated once.
Mul2 == SubSeq([i \in 1..256 |-> XTime(i - 1)], 1, 256)
Mul3 == SubSeq([i \in 1..256 |-> Xor(XTime(i - 1), i - 1)], 1, 256)
Mul9 ==
  SubSeq([i \in 1..256 |-> Xor(XTime(XTime(XTime(i - 1))), i - 1)], 1, 256)
Mul11 ==
  SubSeq([i \in 1..256 |->
            Xor(XTime(XTime(XTime(i - 1))), Xor(XTime(i - 1), i - 1))], 1, 256)
Mul13 ==
  SubSeq([i \in 1..256 |->
            Xor(XTime(XTime(XTime(i - 1))), Xor(XTime(XTime(i - 1)), i - 1))],
         1, 256)
Mul14 ==
  SubSeq([i \in 1..256 |->
            Xor(XTime(XTime(XTime(i - 1))),
                Xor(XTime(XTime(i - 1)), XTime(i - 1)))], 1, 256)

XorSeq(a, b) == SubSeq([i \in 1..Len(a) |-> Xor(a[i], b[i])], 1, Len(a))
SubWord(w) == <<SBox[w[1] + 1], SBox[w[2] + 1], SBox[w[3] + 1], SBox[w[4] + 1]>>
RotWord(w) == <<w[2], w[3], w[4], w[1]>>

\* The key schedule: w grows by one 4-byte word per step up to 4*(Nr+1) words.
RECURSIVE ExpandKey(_, _, _)
ExpandKey(w, Nk, Nr) ==
  IF Len(w) >= BlockSize * (Nr + 1) THEN w
  ELSE LET i == Len(w) \div 4
           temp == SubSeq(w, 4 * (i - 1) + 1, 4 * i)
           t2 == IF i % Nk = 0
                   THEN XorSeq(SubWord(RotWord(temp)), <<Rcon[i \div Nk], 0, 0, 0>>)
                 ELSE IF Nk > 6 /\ i % Nk = 4 THEN SubWord(temp)
                 ELSE temp
           prev == SubSeq(w, 4 * (i - Nk) + 1, 4 * (i - Nk) + 4)
       IN ExpandKey(w \o XorSeq(prev, t2), Nk, Nr)

\* aes.NewCipher(key): a KeySizeError unless the key has 16, 24 or 32 bytes.
NewCipher(key) ==
  IF Len(key) \notin {16, 24, 32}
    THEN [err |-> ErrKeySize, w |-> <<>>, Nr |-> 0]
    ELSE LET Nk == Len(key) \div 4
         IN [err |-> ErrNil, w |-> ExpandKey(key, Nk, Nk + 6), Nr |-> Nk + 6]

AddRoundKey(s, w, round) ==
  SubSeq([i \in 1..BlockSize |-> Xor(s[i], w[BlockSize * round + i])], 1, BlockSize)

\* SubBytes after ShiftRows (byte r + 4c of the state is row r, column c).
SubShift(s) ==
  SubSeq([i \in 1..BlockSize |->
            LET r == (i - 1) % 4
                c == (i - 1) \div 4
            IN SBox[s[r + 4 * ((c + r) % 4) + 1] + 1]], 1, BlockSize)

InvSubShift(s) ==
  SubSeq([i \in 1..BlockSize |->
            LET r == (i - 1) % 4
                c == (i - 1) \div 4
            IN InvSBox[s[r + 4 * ((c + 4 - r) % 4) + 1] + 1]], 1, BlockSize)

MixColumns(s) ==
  SubSeq([i \in 1..BlockSize |->
            LET r == (i - 1) % 4
                c == (i - 1) \div 4
                a(k) == s[4 * c + ((r + k) % 4) + 1]
            IN Xor(Xor(Mul2[a(0) + 1], Mul3[a(1) + 1]), Xor(a(2), a(3)))],
         1, BlockSize)

InvMixColumns(s) ==
  SubSeq([i \in 1..BlockSize |->
            LET r == (i - 1) % 4
                c == (i - 1) \div 4
                a(k) == s[4 * c + ((r + k) % 4) + 1]
            IN Xor(Xor(Mul14[a(0) + 1], Mul11[a(1) + 1]),
                   Xor(Mul13[a(2) + 1], Mul9[a(3) + 1]))], 1, BlockSize)

\* Rounds round..Nr of the cipher on state s (a full block at every round).
RECURSIVE EncRounds(_, _, _)
EncRounds(s, c, round) ==
  IF Len(s) # BlockSize THEN s
  ELSE IF round = c.Nr THEN AddRoundKey(SubShift(s), c.w, round)
  ELSE EncRounds(AddRoundKey(MixColumns(SubShift(s)), c.w, round), c, round + 1)

\* cipher.Encrypt(dst, src) on one block
EncryptBlock(c, src) == EncRounds(AddRoundKey(src, c.w, 0), c, 1)

\* Rounds round..0 of the inverse cipher on state s.
RECURSIVE DecRounds(_, _, _)
DecRounds(s, c, round) ==
  IF Len(s) # BlockSize THEN s
  ELSE IF round = 0 THEN AddRoundKey(InvSubShift(s), c.w, 0)
  ELSE DecRounds(InvMixColumns(AddRoundKey(InvSubShift(s), c.w, round)), c, round - 1)

\* cipher.Decrypt(dst, src) on one block
DecryptBlock(c, src) == DecRounds(AddRoundKey(src, c.w, c.Nr), c, c.Nr - 1)

(***************************************************************************)
(* datacrypto/aesecb.go: key folding, padding, the block loops.            *)
(***************************************************************************)

Range(f) == {f[x] : x \in DOMAIN f}

\* make([]byte, n)
Zeros(n) == SubSeq([i \in 1..n |-> 0], 1, n)

\* copy(dst, src): the first min(len(dst), len(src)) bytes of src over dst.
Copy(dst, src) ==
  SubSeq([i \in 1..Len(dst) |-> IF i <= Len(src) THEN src[i] ELSE dst[i]],
         1, Len(dst))

\* The loop of aesKey from index i on: each pass of the outer loop folds the
\* next keyLen bytes of key (fewer at the end) into k, byte j with byte i + j.
RECURSIVE foldKey(_, _, _)
foldKey(k, key, i) ==
  IF Len(k) = 0 \/ i >= Len(key) THEN k
  ELSE foldKey(SubSeq([j \in 1..Len(k) |->
                         IF i + j <= Len(key) THEN Xor(k[j], key[i + j]) ELSE k[j]],
                      1, Len(k)),
               key, i + Len(k))

\* A key derivation that cuts the passphrase off where the key ends.
aesKeyCut(aesKeyLen, key) ==
  IF Len(key) = aesKeyLen \div 8 THEN key
  ELSE Copy(Zeros(aesKeyLen \div 8), key)

aesKey(aesKeyLen, key) ==
  LET keyLen == aesKeyLen \div 8
  IN IF Len(key) = keyLen THEN key
     ELSE foldKey(Copy(Zeros(keyLen), key), key, keyLen)

\* A padding of zero bytes.
paddedWithZeros(plaintext) ==
  Copy(Zeros(((Len(plaintext) + BlockSize) \div BlockSize) * BlockSize), plaintext)

\* srctext of encrypt: the plaintext, then padLen bytes of value padLen.
padded(plaintext) ==
  LET numberOfBlocks == (Len(plaintext) + BlockSize) \div BlockSize
      srctext == Copy(Zeros(numberOfBlocks * BlockSize), plaintext)
      padLen == (Len(srctext) - Len(plaintext)) % 256
  IN SubSeq([i \in 1..Len(srctext) |->
               IF i > Len(plaintext) THEN padLen ELSE srctext[i]],
            1, Len(srctext))

\* Block b (from 1) of a buffer.
blockAt(buf, b) == SubSeq(buf, BlockSize * (b - 1) + 1, BlockSize * b)

\* The loop for bs, be := 0, aes.BlockSize; bs < len(buf); ... of encrypt and
\* decrypt: every block of src through one block operation, in place order.
RECURSIVE eachBlock(_, _, _, _, _)
eachBlock(dir, c, src, b, dst) ==
  IF Len(dst) >= Len(src) THEN dst
  ELSE eachBlock(dir, c, src, b + 1,
                 dst \o (IF dir = "enc" THEN EncryptBlock(c, blockAt(src, b))
                                        ELSE DecryptBlock(c, blockAt(src, b))))

\* encrypt once aes.NewCipher has returned cipher
encryptWith(cipher, plaintext) ==
  IF cipher.err # ErrNil THEN [ret |-> <<>>, err |-> cipher.err]
  ELSE [ret |-> eachBlock("enc", cipher, padded(plaintext), 1, <<>>),
        err |-> ErrNil]

\* func (sd aesECBSecureData) encrypt(plaintext []byte) ([]byte, error)
encrypt(k, plaintext) == encryptWith(NewCipher(k), plaintext)

\* An end of decrypt that leaves the padding on.
unpaddedKept(decryptedFull) ==
  IF decryptedFull[Len(decryptedFull)] > Len(decryptedFull)
    THEN [ret |-> <<>>, err |-> ErrInvalidAlgorithm]
    ELSE [ret |-> decryptedFull, err |-> ErrNil]

\* An end of decrypt that trusts the last byte.
unpaddedUnchecked(decryptedFull) ==
  [ret |-> SubSeq(decryptedFull, 1,
                  Len(decryptedFull) - decryptedFull[Len(decryptedFull)]),
   err |-> ErrNil]

\* The end of decrypt: the padding taken off decryptedFull, by its last byte.
unpadded(decryptedFull) ==
  IF decryptedFull[Len(decryptedFull)] > Len(decryptedFull)
    THEN [ret |-> <<>>, err |-> ErrInvalidAlgorithm]
    ELSE [ret |-> SubSeq(decryptedFull, 1,
                         Len(decryptedFull) - decryptedFull[Len(decryptedFull)]),
          err |-> ErrNil]

\* decrypt once aes.NewCipher has returned cipher
decryptWith(cipher, ciphertext) ==
  IF cipher.err # ErrNil THEN [ret |-> <<>>, err |-> cipher.err]
  ELSE IF Len(ciphertext) % BlockSize # 0
    THEN [ret |-> <<>>, err |-> ErrInvalidAlgorithm]
  ELSE unpadded(eachBlock("dec", cipher, ciphertext, 1, <<>>))

\* func (sd aesECBSecureData) decrypt(ciphertext []byte) ([]byte, error)
decrypt(k, ciphertext) == decryptWith(NewCipher(k), ciphertext)

\* func (sd aesECBSecureData) Encrypt(text string) (string, error)
Encrypt(k, text) == encrypt(k, text)

\* func (sd aesECBSecureData) Decrypt(encryptedText string) (string, error)
Decrypt(k, encryptedText) ==
  IF encryptedText = <<>> THEN [ret |-> encryptedText, err |-> ErrNil]
  ELSE decrypt(k, encryptedText)

(***************************************************************************)
(* The caller's object graph.  The heap maps an address (1, 2, ...) to an  *)
(* object [kind, val]: a string (val its bytes), an int, or a struct (val  *)
(* the sequence of its fields).  A field is [exported, tag, kind, elem,    *)
(* val]: kind "string" or "int" with the value, "struct" with the fields   *)
(* of a struct held by value (an embedded struct is such a field, exported *)
(* when its type's name is), "ptr" with elem the kind pointed to and val   *)
(* the address, Nil for a nil pointer.  tag is the value of the field's    *)
(* crypt tag, NoTag when it has none.                                      *)
(* A cell is where a string lives: <<addr>> for a string object, and       *)
(* <<addr, i1, .., in>> for field in of the struct reached from object     *)
(* addr through the by-value fields i1, .., i(n-1).                        *)
(***************************************************************************)
Nil == 0
NoTag == "(no crypt tag)"

\* The fields of the struct at addr, inside by-value fields path.
RECURSIVE fieldsIn(_, _)
fieldsIn(fields, path) ==
  IF path = <<>> THEN fields
  ELSE fieldsIn(fields[Head(path)].val, Tail(path))

fieldsAt(h, addr, path) == fieldsIn(h[addr].val, path)

\* fields with the field at path set to string v.
RECURSIVE setIn(_, _, _)
setIn(fields, path, v) ==
  IF Len(path) = 1 THEN [fields EXCEPT ![path[1]].val = v]
  ELSE [fields EXCEPT ![Head(path)].val = setIn(@, Tail(path), v)]

\* field.String() of the string at cell
cellValue(h, cell) ==
  IF Len(cell) = 1 THEN h[cell[1]].val
  ELSE fieldsIn(h[cell[1]].val, SubSeq(cell, 2, Len(cell) - 1))[cell[Len(cell)]].val

\* field.SetString(v) on the string at cell
setCell(h, cell, v) ==
  IF Len(cell) = 1 THEN [h EXCEPT ![cell[1]].val = v]
  ELSE [h EXCEPT ![cell[1]].val = setIn(@, Tail(cell), v)]

\* sd.Encrypt or sd.Decrypt, by the direction of the traversal
cryptString(dir, k, text) ==
  IF dir = "enc" THEN Encrypt(k, text) ELSE Decrypt(k, text)

\* A selection by the presence of the tag, whatever its value.
isTagged(field) == field.tag # NoTag

\* cryptValue, hasCryptTag := currentFieldTag.Lookup("crypt");
\* hasCryptTag && cryptValue == "true"
isSelected(field) == field.tag # NoTag /\ field.tag = "true"

\* The end of the string case: r is what sd.Encrypt / sd.Decrypt returned for
\* the string at cell; its error ends the call, else field.SetString(r.ret).
stored(r, h, cell) ==
  IF r.err # ErrNil THEN [heap |-> h, err |-> r.err]
  ELSE [heap |-> setCell(h, cell, r.ret), err |-> ErrNil]

\* The loop over the fields of EncryptStruct and of DecryptStruct (the two
\* bodies differ only in the string operation) on the struct at addr/path,
\* about to look at field i; s is [heap, err] as the passes before left them:
\* an error has ended the call, with the heap as it was then.
RECURSIVE crawl(_, _, _, _, _, _)

\* One pass of the loop, for field i: the heap it leaves and its error.
onField(dir, k, h, addr, path, i) ==
  LET field == fieldsAt(h, addr, path)[i]
      pointsTo(elem) == field.kind = "ptr" /\ field.val # Nil /\ field.elem = elem
      \* where the string of a string field or of a pointer to a string lives
      cell == IF field.kind = "string" THEN <<addr>> \o path \o <<i>>
              ELSE <<field.val>>
      \* the struct of a struct field or of a pointer to a struct
      sub == IF field.kind = "struct" THEN [addr |-> addr, path |-> path \o <<i>>]
             ELSE [addr |-> field.val, path |-> <<>>]
  IN \* field.IsValid() && field.CanSet()
     IF ~field.exported THEN [heap |-> h, err |-> ErrNil]
     ELSE IF field.kind = "string" \/ pointsTo("string")
       THEN IF isSelected(field)
              THEN stored(cryptString(dir, k, cellValue(h, cell)), h, cell)
              ELSE [heap |-> h, err |-> ErrNil]
     ELSE IF field.kind = "struct" \/ pointsTo("struct")
       THEN crawl(dir, k, [heap |-> h, err |-> ErrNil], sub.addr, sub.path, 1)
     ELSE IF field.kind # "ptr" /\ isSelected(field)
       THEN [heap |-> h, err |-> ErrFieldType]
     ELSE [heap |-> h, err |-> ErrNil]

\* A loop that goes on to the next field after an error, and keeps the error.
keepFirst(s, r) ==
  [heap |-> r.heap, err |-> IF s.err # ErrNil THEN s.err ELSE r.err]
crawlOn(dir, k, s, addr, path, i) ==
  IF i > Len(fieldsAt(s.heap, addr, path)) THEN s
  ELSE crawl(dir, k, keepFirst(s, onField(dir, k, s.heap, addr, path, i)),
             addr, path, i + 1)

crawl(dir, k, s, addr, path, i) ==
  IF s.err # ErrNil THEN s
  ELSE IF i > Len(fieldsAt(s.heap, addr, path)) THEN s
  ELSE crawl(dir, k, onField(dir, k, s.heap, addr, path, i), addr, path, i + 1)

\* "must receive a pointer, but received " + instanceType.Kind().String()
notPointerError(kind) ==
  CASE kind = "struct" -> "must receive a pointer, but received struct"
    [] kind = "string" -> "must receive a pointer, but received string"
    [] OTHER -> "must receive a pointer, but received int"

\* "must receive a pointer to a struct, but received " + ...Kind().String()
notStructError(kind) ==
  CASE kind = "string" -> "must receive a pointer to a struct, but received string"
    [] kind = "ptr" -> "must receive a pointer to a struct, but received ptr"
    [] OTHER -> "must receive a pointer to a struct, but received int"

\* The return of EncryptStruct / DecryptStruct after the field loop: (nil, err)
\* on an error, else (instance, nil).
returned(s, instance) ==
  IF s.err # ErrNil THEN [ret |-> Nil, err |-> s.err, heap |-> s.heap]
  ELSE [ret |-> instance.val, err |-> ErrNil, heap |-> s.heap]

\* Checks that let a pointer to anything through, and do nothing for it.
structCallOnAny(dir, k, h, instance) ==
  IF instance.kind # "ptr"
    THEN [ret |-> Nil, err |-> notPointerError(instance.kind), heap |-> h]
  ELSE IF instance.elem # "struct"
    THEN [ret |-> instance.val, err |-> ErrNil, heap |-> h]
  ELSE IF instance.val = Nil
    THEN [ret |-> Nil, err |-> ErrPanic, heap |-> h]
  ELSE returned(crawl(dir, k, [heap |-> h, err |-> ErrNil], instance.val, <<>>, 1),
                instance)

\* The checks and the field loop of EncryptStruct / DecryptStruct on the
\* interface value instance: [kind, elem, val], a pointer (val an address, Nil
\* for a nil pointer) or a bare value.  ret is the address returned, Nil for a
\* nil interface.  A nil pointer to a struct panics in instanceValue.Field(i).
structCall(dir, k, h, instance) ==
  IF instance.kind # "ptr"
    THEN [ret |-> Nil, err |-> notPointerError(instance.kind), heap |-> h]
  ELSE IF instance.elem # "struct"
    THEN [ret |-> Nil, err |-> notStructError(instance.elem), heap |-> h]
  ELSE IF instance.val = Nil
    THEN [ret |-> Nil, err |-> ErrPanic, heap |-> h]
  ELSE returned(crawl(dir, k, [heap |-> h, err |-> ErrNil], instance.val, <<>>, 1),
                instance)

\* func (sd aesECBSecureData) EncryptStruct(instance interface{}) (interface{}, error)
EncryptStruct(k, h, instance) == structCall("enc", k, h, instance)

\* A DecryptStruct whose string operation is that of EncryptStruct.
DecryptStructEncrypting(k, h, instance) == structCall("enc", k, h, instance)

\* func (sd aesECBSecureData) DecryptStruct(encryptedInstance interface{}) (interface{}, error)
DecryptStruct(k, h, instance) == structCall("dec", k, h, instance)

\* func NewAESECB(size AESSize, key string) Crypto
NewAESECB(sz, pass) == aesKey(sz, pass)

(***************************************************************************)
(* The inputs.                                                             *)
(***************************************************************************)

\* Longest generated plaintext, and longest generated passphrase.
MaxLen == 17
MaxPassLen == 65
\* The goroutines that call the engine at the same time.
NumCallers == 2
\* The calls inside one another the model follows a traversal to.
MaxDepth == 6

\* n bytes counting up from first, wrapping at 256.
Pattern(n, first) == SubSeq([i \in 1..n |-> (first + i - 1) % 256], 1, n)

\* "test", the key of the package's tests
TestKey == <<116, 101, 115, 116>>
\* "value 1" and "super value 1" of the package's tests
Value1 == <<118, 97, 108, 117, 101, 32, 49>>
SuperValue1 == <<115, 117, 112, 101, 114, 32, 118, 97, 108, 117, 101, 32, 49>>
\* what the tests expect Encrypt to give for them under AES128 and "test"
EncryptedValue1 ==
  <<34, 28, 236, 71, 238, 103, 83, 176, 111, 42, 229, 173, 59, 41, 126, 235>>
EncryptedSuperValue1 ==
  <<55, 155, 126, 21, 87, 31, 238, 143, 174, 111, 221, 193, 103, 83, 160, 221>>

Sizes == {AES128, AES256}
Texts ==
  {Pattern(n, first) : n \in 0..MaxLen, first \in {1, 250}}
    \cup {Value1, SuperValue1, Pattern(2 * BlockSize - 1, 65), Pattern(2 * BlockSize, 97)}
\* Passphrases shorter than, as long as, and longer than both key lengths.
EnginePassphrases == {TestKey, Pattern(40, 33)}
AllPassphrases == {Pattern(n, first) : n \in 0..MaxPassLen, first \in {48, 200}}

\* What a caller may hand to Decrypt once Encrypt returned c: c itself, c cut
\* by a byte or by its last block, c with a byte or a block more, its first block.
Tampered(c) ==
  {c, SubSeq(c, 1, Len(c) - 1), SubSeq(c, 1, Len(c) - BlockSize), c \o <<0>>,
   blockAt(c, 1), c \o blockAt(c, 1)}

\* "value 2", "value 3" and "super value 2" of the package's tests
Value2 == <<118, 97, 108, 117, 101, 32, 50>>
Value3 == <<118, 97, 108, 117, 101, 32, 51>>
SuperValue2 == <<115, 117, 112, 101, 114, 32, 118, 97, 108, 117, 101, 32, 50>>
EncryptedValue3 ==
  <<250, 22, 0, 103, 180, 60, 122, 174, 183, 236, 226, 86, 16, 58, 213, 223>>

\* Fields and objects.
StringField(exported, tag, v) ==
  [exported |-> exported, tag |-> tag, kind |-> "string", elem |-> "", val |-> v]
IntField(exported, tag, n) ==
  [exported |-> exported, tag |-> tag, kind |-> "int", elem |-> "", val |-> n]
StructField(exported, tag, fields) ==
  [exported |-> exported, tag |-> tag, kind |-> "struct", elem |-> "", val |-> fields]
PtrField(exported, tag, elem, addr) ==
  [exported |-> exported, tag |-> tag, kind |-> "ptr", elem |-> elem, val |-> addr]
StringObj(v) == [kind |-> "string", val |-> v]
IntObj(n) == [kind |-> "int", val |-> n]
StructObj(fields) == [kind |-> "struct", val |-> fields]
PointerTo(elem, addr) == [kind |-> "ptr", elem |-> elem, val |-> addr]
Bare(kind, v) == [kind |-> kind, elem |-> "", val |-> v]

\* type TestStruct struct { Field1 string `crypt:"true"`; Field2 string;
\*                          Field3 string `crypt:"true"` }
TestStruct(f1, f2, f3) ==
  <<StringField(TRUE, "true", f1), StringField(TRUE, NoTag, f2),
    StringField(TRUE, "true", f3)>>
\* type testRecursiveStruct struct { Field1 string `crypt:"true"`;
\*                                   Field2 string; Field3 TestStruct }
TestRecursiveStruct ==
  <<StringField(TRUE, "true", SuperValue1), StringField(TRUE, NoTag, SuperValue2),
    StructField(TRUE, NoTag, TestStruct(Value1, Value2, Value3))>>

\* The instances the caller builds: the heap, and the value handed to
\* EncryptStruct / DecryptStruct.
Instances ==
  << \* 1: &TestStruct{value1, value2, value3}
     [heap |-> <<StructObj(TestStruct(Value1, Value2, Value3))>>,
      inst |-> PointerTo("struct", 1)],
     \* 2: &testStructPointer{Field1: value1, Field2: &value2, Field3: &value3}
     [heap |-> <<StructObj(<<StringField(TRUE, "true", Value1),
                             PtrField(TRUE, NoTag, "string", 2),
                             PtrField(TRUE, "true", "string", 3)>>),
                 StringObj(Value2), StringObj(Value3)>>,
      inst |-> PointerTo("struct", 1)],
     \* 3: &testRecursiveStruct{...}
     [heap |-> <<StructObj(TestRecursiveStruct)>>,
      inst |-> PointerTo("struct", 1)],
     \* 4: &testRecursiveStructPointer{Field1: "super value 1", Field2: &testRecursiveStruct{...}}
     [heap |-> <<StructObj(<<StringField(TRUE, "true", SuperValue1),
                             PtrField(TRUE, NoTag, "struct", 2)>>),
                 StructObj(TestRecursiveStruct)>>,
      inst |-> PointerTo("struct", 1)],
     \* 5: &testEmbeddedStruct{TestStruct: TestStruct{...}}
     [heap |-> <<StructObj(<<StructField(TRUE, NoTag, TestStruct(Value1, Value2, Value3))>>)>>,
      inst |-> PointerTo("struct", 1)],
     \* 6: &testEmbeddedStructPointer{TestStruct: &TestStruct{...}}
     [heap |-> <<StructObj(<<PtrField(TRUE, NoTag, "struct", 2)>>),
                 StructObj(TestStruct(Value1, Value2, Value3))>>,
      inst |-> PointerTo("struct", 1)],
     \* 7: TestStruct{Field1: value1}, not a pointer
     [heap |-> <<>>,
      inst |-> Bare("struct", TestStruct(Value1, <<>>, <<>>))],
     \* 8: &value2, a pointer to a string
     [heap |-> <<StringObj(Value2)>>,
      inst |-> PointerTo("string", 1)],
     \* 9: a tagged int between two tagged strings
     [heap |-> <<StructObj(<<StringField(TRUE, "true", Value1),
                             IntField(TRUE, "true", 42),
                             StringField(TRUE, "true", Value3)>>)>>,
      inst |-> PointerTo("struct", 1)],
     \* 10: a tag other than "true", an int without tag, an empty tagged string
     [heap |-> <<StructObj(<<StringField(TRUE, "false", Value1),
                             IntField(TRUE, NoTag, 42),
                             StringField(TRUE, "true", <<>>)>>)>>,
      inst |-> PointerTo("struct", 1)],
     \* 11: three pointer fields to one string, two of them tagged
     [heap |-> <<StructObj(<<PtrField(TRUE, "true", "string", 2),
                             PtrField(TRUE, "true", "string", 2),
                             PtrField(TRUE, NoTag, "string", 2)>>),
                 StringObj(Value1)>>,
      inst |-> PointerTo("struct", 1)],
     \* 12: unexported fields: a tagged string, an embedded struct of an
     \* unexported type, a tagged int; and an exported tagged string
     [heap |-> <<StructObj(<<StringField(FALSE, "true", Value1),
                             StructField(FALSE, NoTag, TestStruct(Value1, Value2, Value3)),
                             IntField(FALSE, "true", 7),
                             StringField(TRUE, "true", Value3)>>)>>,
      inst |-> PointerTo("struct", 1)],
     \* 13: a tagged pointer to an int, tagged nil pointers
     [heap |-> <<StructObj(<<StringField(TRUE, "true", Value1),
                             PtrField(TRUE, "true", "int", 2),
                             PtrField(TRUE, "true", "string", Nil),
                             PtrField(TRUE, "true", "struct", Nil),
                             StringField(TRUE, "true", Value3)>>),
                 IntObj(42)>>,
      inst |-> PointerTo("struct", 1)],
     \* 14: a tagged int inside a pointed-to struct, a tagged string after it
     [heap |-> <<StructObj(<<StringField(TRUE, "true", Value1),
                             PtrField(TRUE, "true", "struct", 2),
                             StringField(TRUE, "true", Value3)>>),
                 StructObj(<<StringField(TRUE, "true", Value2),
                             IntField(TRUE, "true", 1),
                             StringField(TRUE, "true", Value2)>>)>>,
      inst |-> PointerTo("struct", 1)],
     \* 15: &TestStruct{encryptedValue1, value2, value3}: Field3 is no ciphertext
     [heap |-> <<StructObj(TestStruct(EncryptedValue1, Value2, Value3))>>,
      inst |-> PointerTo("struct", 1)],
     \* 16: (*TestStruct)(nil)
     [heap |-> <<>>,
      inst |-> PointerTo("struct", Nil)],
     \* 17: two pointer fields to one struct; a struct field tagged "true"
     [heap |-> <<StructObj(<<PtrField(TRUE, NoTag, "struct", 2),
                             PtrField(TRUE, "false", "struct", 2),
                             StructField(TRUE, "true", TestStruct(Value1, Value2, <<>>))>>),
                 StructObj(TestStruct(Value1, Value2, Value3))>>,
      inst |-> PointerTo("struct", 1)],
     \* 18: &TestStruct{encryptedValue1, value2, encryptedValue3}
     [heap |-> <<StructObj(TestStruct(EncryptedValue1, Value2, EncryptedValue3))>>,
      inst |-> PointerTo("struct", 1)],
     \* 19: &n, a pointer to an int; 20: a bare string
     [heap |-> <<IntObj(42)>>,
      inst |-> PointerTo("int", 1)],
     [heap |-> <<>>,
      inst |-> Bare("string", Value1)]
  >>

(***************************************************************************)
(* What the traversal of an instance meets, told from the shape of the     *)
(* graph alone: the fields in depth-first declaration order, entering the  *)
(* structs held by value and those behind non-nil pointers.                *)
(***************************************************************************)

\* One entry per field met from field i of the struct at addr/path on:
\* [what, cell, tagged, settable].  what is "string" for a string field or a
\* non-nil pointer to a string (cell is where the string lives), "other" for
\* a field of another kind that is no pointer, "ptrother" for a pointer to
\* neither string nor struct, "nil" for a nil pointer.  settable tells whether
\* the field and every struct field it is reached through are exported.
RECURSIVE met(_, _, _, _, _)
met(h, addr, path, i, settable) ==
  LET fields == fieldsAt(h, addr, path)
      f == fields[i]
      ok == settable /\ f.exported
      isString == f.kind = "string" \/ (f.kind = "ptr" /\ f.val # Nil /\ f.elem = "string")
      isStruct == f.kind = "struct" \/ (f.kind = "ptr" /\ f.val # Nil /\ f.elem = "struct")
      what == CASE isString -> "string"
                [] f.kind = "ptr" /\ f.val = Nil -> "nil"
                [] f.kind = "ptr" -> "ptrother"
                [] OTHER -> "other"
      cell == CASE f.kind = "string" -> <<addr>> \o path \o <<i>>
                [] isString -> <<f.val>>
                [] OTHER -> <<>>
      a2 == IF f.kind = "struct" THEN addr ELSE f.val
      p2 == IF f.kind = "struct" THEN path \o <<i>> ELSE <<>>
  IN IF i > Len(fields) THEN <<>>
     ELSE (IF isStruct THEN <<>>
           ELSE <<[what |-> what, cell |-> cell,
                   tagged |-> f.tag = "true", settable |-> ok]>>)
          \o (IF isStruct THEN met(h, a2, p2, 1, ok) ELSE <<>>)
          \o met(h, addr, path, i + 1, settable)

\* The fields met from a pointer to a struct; none from anything else.
Met(h, instance) ==
  IF instance.kind = "ptr" /\ instance.elem = "struct" /\ instance.val # Nil
    THEN met(h, instance.val, <<>>, 1, TRUE)
    ELSE <<>>

(***************************************************************************)
(* The state: one engine, the caller's calls on it, and the caller's       *)
(* object graph.                                                           *)
(***************************************************************************)
VARIABLES
  key,         \* sd.key of the engine; NoKey until NewAESECB has run
  size,        \* the size NewAESECB was called with
  passphrase,  \* the key string NewAESECB was called with
  plain,       \* the argument of the Encrypt call
  enc,         \* what Encrypt returned
  cin,         \* the argument of the Decrypt call
  dec,         \* what Decrypt returned
  heap,        \* the caller's objects, by address
  instance,    \* the value the caller hands to EncryptStruct / DecryptStruct
  first,       \* the heap as the caller built it
  before,      \* the heap when the last struct call started
  calls,       \* the caller's steps on the graph so far: [op, ret, err]
  mem,         \* the byte buffers the running calls have made, by address
  callers,     \* the goroutines calling Encrypt / Decrypt on the engine
  stack,       \* the EncryptStruct / DecryptStruct calls inside one another,
               \* the innermost last: [addr, path, i], the struct and the
               \* field its loop is at
  walk         \* the outermost of them: [pc, dir, err]

cipherVars == <<plain, enc, cin, dec>>
structVars == <<heap, instance, first, before, calls>>
concVars == <<mem, callers>>
walkVars == <<stack, walk>>
vars == <<key, size, passphrase, plain, enc, cin, dec,
          heap, instance, first, before, calls, mem, callers, stack, walk>>

NoKey == <<>>
NoCall == [ret |-> <<>>, err |-> "no call"]
NoInstance == Bare("none", Nil)
NoWalk == [pc |-> "none", dir |-> "none", err |-> ErrNil]
NoCipher == [err |-> "no cipher", w |-> <<>>, Nr |-> 0]

\* A goroutine that has not called yet.  Of a running call: pc is where it
\* is, cipher what aes.NewCipher gave it, src and dst the addresses of srctext
\* and of ciphertext / decryptedFull, b the block its loop is at.
Idle ==
  [pc |-> "idle", op |-> "none", arg |-> <<>>, cipher |-> NoCipher,
   src |-> Nil, dst |-> Nil, b |-> 0, ret |-> <<>>, err |-> ErrNil]

InitEngine ==
  /\ key = NoKey
  /\ size = 0
  /\ passphrase = <<>>
  /\ plain = <<>>
  /\ enc = NoCall
  /\ cin = <<>>
  /\ dec = NoCall
  /\ mem = <<>>
  /\ callers = [c \in 1..NumCallers |-> Idle]
  /\ stack = <<>>
  /\ walk = NoWalk

\* No engine yet, no object graph.
Init ==
  /\ InitEngine
  /\ heap = <<>>
  /\ instance = NoInstance
  /\ first = <<>>
  /\ before = <<>>
  /\ calls = <<>>

\* No engine yet, and one of the instances built.
InitStruct ==
  /\ InitEngine
  /\ \E g \in 1..Len(Instances) :
       /\ heap = Instances[g].heap
       /\ instance = Instances[g].inst
       /\ first = Instances[g].heap
  /\ before = <<>>
  /\ calls = <<>>

\* NewAESECB(sz, pass) for a size and a passphrase of the given sets.
CallNewAESECB(sizes, passphrases) ==
  /\ key = NoKey
  /\ \E sz \in sizes, pass \in passphrases :
       /\ size' = sz
       /\ passphrase' = pass
       /\ key' = NewAESECB(sz, pass)
  /\ UNCHANGED cipherVars
  /\ UNCHANGED structVars
  /\ UNCHANGED concVars
  /\ UNCHANGED walkVars

\* sd.Encrypt(t)
CallEncrypt ==
  /\ key # NoKey
  /\ enc = NoCall
  /\ dec = NoCall
  /\ \E t \in Texts :
       /\ plain' = t
       /\ enc' = Encrypt(key, t)
  /\ UNCHANGED <<key, size, passphrase, cin, dec>>
  /\ UNCHANGED structVars
  /\ UNCHANGED concVars
  /\ UNCHANGED walkVars

\* sd.Decrypt(c), of what Encrypt returned (as is or tampered with), or of a
\* string that never was a ciphertext.
CallDecrypt ==
  /\ key # NoKey
  /\ dec = NoCall
  /\ \E c \in (IF enc = NoCall THEN Texts ELSE Tampered(enc.ret)) :
       /\ cin' = c
       /\ dec' = Decrypt(key, c)
  /\ UNCHANGED <<key, size, passphrase, plain, enc>>
  /\ UNCHANGED structVars
  /\ UNCHANGED concVars
  /\ UNCHANGED walkVars

Next ==
  \/ CallNewAESECB(Sizes, EnginePassphrases)
  \/ CallEncrypt
  \/ CallDecrypt

Spec == Init /\ [][Next]_vars

\* Key derivation alone, over every passphrase length.
NextKey == CallNewAESECB(Sizes, AllPassphrases)

SpecKey == Init /\ [][NextKey]_vars

LastCall == calls[Len(calls)]
Panicked == calls # <<>> /\ LastCall.err = ErrPanic

\* A struct call has returned r: the heap is as the call left it.
StructCallDone(op, r) ==
  /\ heap' = r.heap
  /\ calls' = Append(calls, [op |-> op, ret |-> r.ret, err |-> r.err])
  /\ before' = heap
  /\ UNCHANGED <<key, size, passphrase, instance, first>>
  /\ UNCHANGED cipherVars
  /\ UNCHANGED concVars
  /\ UNCHANGED walkVars

\* sd.EncryptStruct(instance), the caller's first step on the graph.
CallEncryptStruct ==
  /\ key # NoKey
  /\ instance.kind # "none"
  /\ calls = <<>>
  /\ StructCallDone("EncryptStruct", EncryptStruct(key, heap, instance))

\* The string at cell loses its last byte.
TamperAt(cell, v) ==
  /\ heap' = setCell(heap, cell, SubSeq(v, 1, Len(v) - 1))
  /\ calls' = Append(calls, [op |-> "Tamper", ret |-> Nil, err |-> ErrNil])
  /\ UNCHANGED <<key, size, passphrase, instance, first, before>>
  /\ UNCHANGED cipherVars
  /\ UNCHANGED concVars
  /\ UNCHANGED walkVars

\* The caller (or the store the struct went through) cuts the last byte off
\* one of the strings EncryptStruct has written.
Tamper ==
  /\ Len(calls) = 1
  /\ LastCall.op = "EncryptStruct"
  /\ LastCall.err = ErrNil
  /\ \E e \in {x \in Range(Met(heap, instance)) :
                 x.what = "string" /\ x.tagged /\ x.settable} :
       TamperAt(e.cell, cellValue(heap, e.cell))

\* sd.DecryptStruct(instance): of the graph as built, or after EncryptStruct
\* (and the tampering), once.
CallDecryptStruct ==
  /\ key # NoKey
  /\ instance.kind # "none"
  /\ ~Panicked
  /\ \A j \in 1..Len(calls) : calls[j].op # "DecryptStruct"
  /\ StructCallDone("DecryptStruct", DecryptStruct(key, heap, instance))

NextStruct ==
  \/ CallNewAESECB(Sizes, {TestKey})
  \/ CallEncryptStruct
  \/ Tamper
  \/ CallDecryptStruct

SpecStruct == InitStruct /\ [][NextStruct]_vars

(***************************************************************************)
(* Concurrent calls.  A goroutine's call of Encrypt or Decrypt runs in     *)
(* steps, the steps of the goroutines in any order: the call with          *)
(* aes.NewCipher(sd.key), the makes, one step for every pass of the block  *)
(* loop, and the return.  The buffers a call makes live in mem.            *)
(***************************************************************************)

\* The first address of m no buffer lives at.
free(m) ==
  CHOOSE a \in 1..(Len(m) + 1) :
    /\ a > Len(m) \/ m[a] = <<>>
    /\ \A x \in 1..(a - 1) : m[x] # <<>>

\* A make that hands every caller the same buffer.
makePooled(m, n) ==
  [addr |-> 1,
   mem |-> IF m = <<>> THEN <<Zeros(n)>> ELSE [m EXCEPT ![1] = Zeros(n)]]

\* make([]byte, n): a new buffer of n zero bytes, and where it is.
make(m, n) ==
  [addr |-> free(m),
   mem |-> IF free(m) > Len(m) THEN Append(m, Zeros(n))
           ELSE [m EXCEPT ![free(m)] = Zeros(n)]]

\* m without the empty places at its end.
RECURSIVE trim(_)
trim(m) ==
  IF m = <<>> THEN m
  ELSE IF m[Len(m)] # <<>> THEN m
  ELSE trim(SubSeq(m, 1, Len(m) - 1))

\* The buffers no running call refers to any more are garbage.
collected(m, cs) ==
  trim(SubSeq([a \in 1..Len(m) |->
                 IF \E c \in DOMAIN cs : a \in {cs[c].src, cs[c].dst}
                   THEN m[a] ELSE <<>>],
              1, Len(m)))

\* The call has returned (ret, err).
finished(op, arg, ret, err) ==
  [Idle EXCEPT !.pc = "done", !.op = op, !.arg = arg, !.ret = ret, !.err = err]

\* Encrypt(arg) / Decrypt(arg) up to the first make: Decrypt returns the
\* empty string as it is; encrypt and decrypt return the error of
\* aes.NewCipher(sd.key); decrypt checks the length of the ciphertext.
started(op, arg, cipher) ==
  IF op = "Decrypt" /\ arg = <<>> THEN finished(op, arg, arg, ErrNil)
  ELSE IF cipher.err # ErrNil THEN finished(op, arg, <<>>, cipher.err)
  ELSE IF op = "Decrypt" /\ Len(arg) % BlockSize # 0
    THEN finished(op, arg, <<>>, ErrInvalidAlgorithm)
  ELSE [Idle EXCEPT !.pc = "make", !.op = op, !.arg = arg, !.cipher = cipher]

\* 20 bytes, and what Encrypt gives for them under AES128 and "test"
LongText == Pattern(BlockSize + 4, 65)
EncryptedLongText ==
  <<175, 178, 31, 15, 51, 57, 248, 242, 221, 61, 85, 101, 106, 209, 97, 101,
    22, 131, 87, 96, 27, 239, 217, 203, 87, 141, 172, 115, 186, 76, 223, 206>>

\* The calls the goroutines make: buffers of two blocks, and a ciphertext of
\* a wrong length.
ConcCalls ==
  {[op |-> "Encrypt", arg |-> LongText],
   [op |-> "Decrypt", arg |-> EncryptedLongText],
   [op |-> "Decrypt", arg |-> Value1]}

\* Goroutine c calls sd.Encrypt / sd.Decrypt.
Go(c) ==
  /\ key # NoKey
  /\ callers[c].pc = "idle"
  /\ \E call \in ConcCalls :
       callers' = [callers EXCEPT ![c] = started(call.op, call.arg, NewCipher(key))]
  /\ UNCHANGED <<key, size, passphrase, mem>>
  /\ UNCHANGED cipherVars
  /\ UNCHANGED structVars
  /\ UNCHANGED walkVars

\* encrypt has made ciphertext (at dst.addr, in dst.mem) and then srctext (at
\* src.addr, in src.mem), and fills srctext.
encryptMade(c, dst, src) ==
  /\ mem' = [src.mem EXCEPT ![src.addr] = padded(callers[c].arg)]
  /\ callers' = [callers EXCEPT ![c].pc = "loop", ![c].b = 1,
                                ![c].dst = dst.addr, ![c].src = src.addr]

\* decrypt has made decryptedFull.
decryptMade(c, dst) ==
  /\ mem' = dst.mem
  /\ callers' = [callers EXCEPT ![c].pc = "loop", ![c].b = 1, ![c].dst = dst.addr]

\* The makes of encrypt (ciphertext, srctext, and the padding written) or of
\* decrypt (decryptedFull).
Make(c) ==
  /\ callers[c].pc = "make"
  /\ IF callers[c].op = "Encrypt"
       THEN encryptMade(c, make(mem, Len(padded(callers[c].arg))),
                        make(make(mem, Len(padded(callers[c].arg))).mem,
                             Len(padded(callers[c].arg))))
       ELSE decryptMade(c, make(mem, Len(callers[c].arg)))
  /\ UNCHANGED <<key, size, passphrase>>
  /\ UNCHANGED cipherVars
  /\ UNCHANGED structVars
  /\ UNCHANGED walkVars

\* dst[bs:be] of buffer buf becomes out.
blockPut(buf, b, out) ==
  SubSeq([i \in 1..Len(buf) |->
            IF i > BlockSize * (b - 1) /\ i <= BlockSize * b
              THEN out[i - BlockSize * (b - 1)] ELSE buf[i]],
         1, Len(buf))

\* len(ciphertext), the bound of the block loop: of the buffer encrypt made,
\* of the argument of decrypt.
loopLen(m, r) == IF r.op = "Encrypt" THEN Len(m[r.dst]) ELSE Len(r.arg)

\* One pass of the block loop of goroutine c:
\* cipher.Encrypt(ciphertext[bs:be], srctext[bs:be]) or
\* cipher.Decrypt(decryptedFull[bs:be], ciphertext[bs:be])
Block(c) ==
  /\ callers[c].pc = "loop"
  /\ BlockSize * (callers[c].b - 1) < loopLen(mem, callers[c])
  /\ mem' = [mem EXCEPT ![callers[c].dst] =
               blockPut(mem[callers[c].dst], callers[c].b,
                        IF callers[c].op = "Encrypt"
                          THEN EncryptBlock(callers[c].cipher,
                                            blockAt(mem[callers[c].src], callers[c].b))
                          ELSE DecryptBlock(callers[c].cipher,
                                            blockAt(callers[c].arg, callers[c].b)))]
  /\ callers' = [callers EXCEPT ![c].b = callers[c].b + 1]
  /\ UNCHANGED <<key, size, passphrase>>
  /\ UNCHANGED cipherVars
  /\ UNCHANGED structVars
  /\ UNCHANGED walkVars

\* The call of goroutine c is over, and its buffers garbage.
returns(c, cs) ==
  /\ callers' = cs
  /\ mem' = collected(mem, cs)

\* After the loop: encrypt returns ciphertext, decrypt takes the padding off
\* decryptedFull; Encrypt / Decrypt return that as a string.
Return(c) ==
  /\ callers[c].pc = "loop"
  /\ BlockSize * (callers[c].b - 1) >= loopLen(mem, callers[c])
  /\ IF callers[c].op = "Encrypt"
       THEN returns(c, [callers EXCEPT ![c] =
                          finished("Encrypt", callers[c].arg,
                                   mem[callers[c].dst], ErrNil)])
       ELSE returns(c, [callers EXCEPT ![c] =
                          finished("Decrypt", callers[c].arg,
                                   unpadded(mem[callers[c].dst]).ret,
                                   unpadded(mem[callers[c].dst]).err)])
  /\ UNCHANGED <<key, size, passphrase>>
  /\ UNCHANGED cipherVars
  /\ UNCHANGED structVars
  /\ UNCHANGED walkVars

\* No engine yet, the TestStruct of the tests built, no goroutine calling.
InitConc ==
  /\ InitEngine
  /\ heap = Instances[1].heap
  /\ instance = Instances[1].inst
  /\ first = Instances[1].heap
  /\ before = <<>>
  /\ calls = <<>>

\* Every goroutine's call has returned.
AllReturned == \A c \in 1..NumCallers : callers[c].pc = "done"

\* The engine is made, the goroutines call it, and when their calls have
\* returned the struct calls run on it.
NextConc ==
  \/ CallNewAESECB({AES128}, {TestKey})
  \/ AllReturned /\ CallEncryptStruct
  \/ AllReturned /\ CallDecryptStruct
  \/ \E c \in 1..NumCallers : Go(c)
  \/ \E c \in 1..NumCallers : Make(c)
  \/ \E c \in 1..NumCallers : Block(c)
  \/ \E c \in 1..NumCallers : Return(c)

SpecConc == InitConc /\ [][NextConc]_vars

(***************************************************************************)
(* The traversal in steps.  EncryptStruct and DecryptStruct call           *)
(* themselves for a struct field and for a pointer to a struct; stack      *)
(* holds the calls that have not returned, and every step is one pass of   *)
(* the field loop of the innermost call, or its return.  The model follows *)
(* the calls to MaxDepth inside one another.                               *)
(***************************************************************************)

\* type node struct { Name string `crypt:"true"`; Next *node }, and kin: the
\* instances of the stepwise traversal, with and without a struct that
\* reaches itself.
Loops ==
  << \* 1: n := &node{Name: value1}; n.Next = n
     [heap |-> <<StructObj(<<StringField(TRUE, "true", Value1),
                             PtrField(TRUE, NoTag, "struct", 1)>>)>>,
      inst |-> PointerTo("struct", 1)],
     \* 2: the pointer before the string
     [heap |-> <<StructObj(<<PtrField(TRUE, NoTag, "struct", 1),
                             StringField(TRUE, "true", Value1)>>)>>,
      inst |-> PointerTo("struct", 1)],
     \* 3: a.Next = b; b.Next = a; an empty tagged string in b
     [heap |-> <<StructObj(<<StringField(TRUE, NoTag, Value1),
                             PtrField(TRUE, "true", "struct", 2)>>),
                 StructObj(<<StringField(TRUE, "true", <<>>),
                             PtrField(TRUE, NoTag, "struct", 1)>>)>>,
      inst |-> PointerTo("struct", 1)],
     \* 4: the pointer in an unexported field: n.next = n
     [heap |-> <<StructObj(<<StringField(TRUE, "true", Value1),
                             PtrField(FALSE, NoTag, "struct", 1)>>)>>,
      inst |-> PointerTo("struct", 1)],
     \* 5: a tagged int before the pointer
     [heap |-> <<StructObj(<<IntField(TRUE, "true", 42),
                             PtrField(TRUE, NoTag, "struct", 1)>>)>>,
      inst |-> PointerTo("struct", 1)],
     \* 6: n := &node{Name: encryptedValue1}; n.Next = n
     [heap |-> <<StructObj(<<StringField(TRUE, "true", EncryptedValue1),
                             PtrField(TRUE, NoTag, "struct", 1)>>)>>,
      inst |-> PointerTo("struct", 1)],
     \* 7: the root points to a struct that holds, in an embedded struct, a
     \* pointer to itself
     [heap |-> <<StructObj(<<StringField(TRUE, "true", Value1),
                             PtrField(TRUE, NoTag, "struct", 2)>>),
                 StructObj(<<StructField(TRUE, NoTag,
                                         <<StringField(TRUE, NoTag, Value2),
                                           PtrField(TRUE, NoTag, "struct", 2)>>),
                             StringField(TRUE, "true", Value3)>>)>>,
      inst |-> PointerTo("struct", 1)],
     \* 8: a chain of three structs, no struct reaches itself
     [heap |-> <<StructObj(<<StringField(TRUE, "true", Value1),
                             PtrField(TRUE, NoTag, "struct", 2)>>),
                 StructObj(<<PtrField(TRUE, NoTag, "struct", 3),
                             StringField(TRUE, "true", Value2)>>),
                 StructObj(<<StringField(TRUE, "true", Value3),
                             PtrField(TRUE, NoTag, "struct", Nil)>>)>>,
      inst |-> PointerTo("struct", 1)],
     \* 9: testRecursiveStructPointer of the tests
     Instances[4],
     \* 10: two pointers to one struct
     Instances[17],
     \* 11: a tagged int between two tagged strings
     Instances[9],
     \* 12: the pointer to itself inside a struct held in an unexported field
     [heap |-> <<StructObj(<<StructField(FALSE, NoTag,
                                         <<PtrField(TRUE, NoTag, "struct", 1)>>),
                             StringField(TRUE, "true", Value1)>>)>>,
      inst |-> PointerTo("struct", 1)] >>

\* The call for the struct at addr/path, at its first field.
frame(addr, path) == [addr |-> addr, path |-> path, i |-> 1]

\* The field the innermost call is at.
fieldAt(h, f) == fieldsAt(h, f.addr, f.path)[f.i]

\* The field loop of the innermost call is over.
atEnd(h, f) == f.i > Len(fieldsAt(h, f.addr, f.path))

\* The pass for this field calls EncryptStruct / DecryptStruct again: a
\* settable struct field, or a settable non-nil pointer to a struct.
enters(field) ==
  /\ field.exported
  /\ \/ field.kind = "struct"
     \/ field.kind = "ptr" /\ field.val # Nil /\ field.elem = "struct"

\* The call that pass makes: on field.Addr().Interface() for a struct field,
\* on field.Interface() for a pointer.
entered(f, field) ==
  IF field.kind = "struct" THEN frame(f.addr, f.path \o <<f.i>>)
  ELSE frame(field.val, <<>>)

\* The innermost call goes on to its next field.
advanced(st) == [st EXCEPT ![Len(st)].i = st[Len(st)].i + 1]

\* The checks of EncryptStruct / DecryptStruct before the field loop: the
\* error they return, ErrNil when they pass.
checked(inst) ==
  IF inst.kind # "ptr" THEN notPointerError(inst.kind)
  ELSE IF inst.elem # "struct" THEN notStructError(inst.elem)
  ELSE IF inst.val = Nil THEN ErrPanic
  ELSE ErrNil

\* sd.EncryptStruct(instance) / sd.DecryptStruct(instance) is called: its
\* checks, then its loop at the first field.
began(dir, err) ==
  IF err = ErrNil
    THEN /\ stack' = <<frame(instance.val, <<>>)>>
         /\ walk' = [pc |-> "running", dir |-> dir, err |-> ErrNil]
    ELSE /\ stack' = <<>>
         /\ walk' = [pc |-> "returned", dir |-> dir, err |-> err]

CallStruct ==
  /\ key # NoKey
  /\ walk.pc = "none"
  /\ \E dir \in {"enc", "dec"} :
       began(dir, checked(instance))
  /\ before' = heap
  /\ UNCHANGED <<key, size, passphrase, heap, instance, first, calls>>
  /\ UNCHANGED cipherVars
  /\ UNCHANGED concVars

\* A pass that calls no struct function has left r = [heap, err]: its error
\* is returned by every call on the stack, else the loop goes on.
passed(r) ==
  /\ heap' = r.heap
  /\ IF r.err # ErrNil
       THEN /\ stack' = <<>>
            /\ walk' = [walk EXCEPT !.pc = "returned", !.err = r.err]
       ELSE /\ stack' = advanced(stack)
            /\ UNCHANGED walk

\* One pass of the field loop of the innermost call, for a field that is no
\* struct and no pointer to one.
Visit ==
  /\ walk.pc = "running"
  /\ ~atEnd(heap, stack[Len(stack)])
  /\ ~enters(fieldAt(heap, stack[Len(stack)]))
  /\ passed(onField(walk.dir, key, heap, stack[Len(stack)].addr,
                    stack[Len(stack)].path, stack[Len(stack)].i))
  /\ UNCHANGED <<key, size, passphrase, instance, first, before, calls>>
  /\ UNCHANGED cipherVars
  /\ UNCHANGED concVars

\* A pass that makes no call for a struct the stack holds a call for already.
EnterOnce ==
  /\ walk.pc = "running"
  /\ ~atEnd(heap, stack[Len(stack)])
  /\ enters(fieldAt(heap, stack[Len(stack)]))
  /\ Len(stack) < MaxDepth
  /\ stack' =
       IF \E j \in 1..Len(stack) :
            [stack[j] EXCEPT !.i = 1]
              = entered(stack[Len(stack)], fieldAt(heap, stack[Len(stack)]))
         THEN advanced(stack)
         ELSE Append(stack, entered(stack[Len(stack)],
                                    fieldAt(heap, stack[Len(stack)])))
  /\ UNCHANGED <<key, size, passphrase, heap, instance, first, before, calls, walk>>
  /\ UNCHANGED cipherVars
  /\ UNCHANGED concVars

\* The pass for a struct field or a pointer to a struct: the call of
\* EncryptStruct / DecryptStruct on it, whatever is on the stack already.
Enter ==
  /\ walk.pc = "running"
  /\ ~atEnd(heap, stack[Len(stack)])
  /\ enters(fieldAt(heap, stack[Len(stack)]))
  /\ Len(stack) < MaxDepth
  /\ stack' = Append(stack, entered(stack[Len(stack)],
                                    fieldAt(heap, stack[Len(stack)])))
  /\ UNCHANGED <<key, size, passphrase, heap, instance, first, before, calls, walk>>
  /\ UNCHANGED cipherVars
  /\ UNCHANGED concVars

\* return instance, nil: the innermost call is over, and the pass of the
\* call that made it; the outermost call returns to the caller.
Leave ==
  /\ walk.pc = "running"
  /\ atEnd(heap, stack[Len(stack)])
  /\ IF Len(stack) = 1
       THEN /\ stack' = <<>>
            /\ walk' = [walk EXCEPT !.pc = "returned"]
       ELSE /\ stack' = advanced(SubSeq(stack, 1, Len(stack) - 1))
            /\ UNCHANGED walk
  /\ UNCHANGED <<key, size, passphrase, heap, instance, first, before, calls>>
  /\ UNCHANGED cipherVars
  /\ UNCHANGED concVars

\* No engine yet, and one of the instances built.
InitWalk ==
  /\ InitEngine
  /\ \E g \in 1..Len(Loops) :
       /\ heap = Loops[g].heap
       /\ instance = Loops[g].inst
       /\ first = Loops[g].heap
  /\ before = <<>>
  /\ calls = <<>>

NextWalk ==
  \/ CallNewAESECB({AES128}, {TestKey})
  \/ CallStruct
  \/ Visit
  \/ Enter
  \/ Leave

SpecWalk == InitWalk /\ [][NextWalk]_vars

(***************************************************************************)
(* The claims.                                                             *)
(***************************************************************************)

\* C1: for every string s and every engine of size 128 or 256,
\* Decrypt(Encrypt(s)) returns s with a nil error (the empty string and the
\* strings of a whole number of blocks included).
C1_RoundTrip ==
  (enc # NoCall /\ dec # NoCall /\ cin = enc.ret)
    => (enc.err = ErrNil /\ dec.err = ErrNil /\ dec.ret = plain)

\* A round trip of a non-empty plaintext that fills its blocks exactly.
C1_Witness ==
  /\ enc # NoCall /\ dec # NoCall /\ cin = enc.ret
  /\ Len(plain) = BlockSize
  /\ dec.ret = plain

\* C2: Encrypt pads before ciphering: the padded buffer has length
\* 16 * (len(s) div 16 + 1), starts with s, and its last N bytes all equal
\* N = bufferLen - len(s), N in 1..16; len(Encrypt(s)) is that buffer length,
\* a positive multiple of 16 greater than len(s).
C2_Padding ==
  enc # NoCall =>
    LET srctext == padded(plain)
        bufferLen == BlockSize * ((Len(plain) \div BlockSize) + 1)
        N == bufferLen - Len(plain)
    IN /\ Len(srctext) = bufferLen
       /\ N \in 1..BlockSize
       /\ SubSeq(srctext, 1, Len(plain)) = plain
       /\ \A i \in (Len(plain) + 1)..bufferLen : srctext[i] = N
       /\ enc.err = ErrNil
       /\ Len(enc.ret) = bufferLen
       /\ Len(enc.ret) > 0
       /\ Len(enc.ret) % BlockSize = 0
       /\ Len(enc.ret) > Len(plain)

\* Encrypt of a plaintext that already fills one block: a block of padding more.
C2_Witness ==
  /\ enc # NoCall
  /\ Len(plain) = BlockSize
  /\ Len(enc.ret) = 2 * BlockSize

\* The last byte of the buffer decrypt builds from ciphertext c, block by block.
LastDecryptedByte(k, c) ==
  DecryptBlock(NewCipher(k), blockAt(c, Len(c) \div BlockSize))[BlockSize]

\* C3: Decrypt of a non-empty ciphertext whose length is no multiple of 16, or
\* whose decrypted buffer ends in a byte greater than the buffer's length, fails
\* with ErrInvalidAlgorithm and returns no plaintext.
C3_Corruption ==
  (/\ dec # NoCall
   /\ cin # <<>>
   /\ \/ Len(cin) % BlockSize # 0
      \/ LastDecryptedByte(key, cin) > Len(cin))
    => (dec.err = ErrInvalidAlgorithm /\ dec.ret = <<>>)

\* A ciphertext of whole blocks is rejected for its pad-length byte.
C3_Witness ==
  /\ dec # NoCall
  /\ cin # <<>>
  /\ Len(cin) % BlockSize = 0
  /\ LastDecryptedByte(key, cin) > Len(cin)
  /\ dec.err = ErrInvalidAlgorithm

\* The XOR of the bytes of pass at the (0-based) indices of set idx.
RECURSIVE XorOver(_, _)
XorOver(idx, pass) ==
  IF idx = {} THEN 0
  ELSE LET i == CHOOSE x \in idx : TRUE
       IN Xor(pass[i + 1], XorOver(idx \ {i}, pass))

\* C10: aesKey(targetBits, passphrase) returns exactly L = targetBits / 8
\* bytes: the passphrase itself when it has L bytes, and otherwise k with k[p]
\* the XOR of the passphrase bytes at the indices i with i mod L = p (zero
\* where there is none).
C10_KeyFolding ==
  key # NoKey =>
    LET L == size \div 8
    IN /\ Len(key) = L
       /\ Len(passphrase) = L => key = passphrase
       /\ \A p \in 0..(L - 1) :
            key[p + 1] =
              XorOver({i \in 0..(Len(passphrase) - 1) : i % L = p}, passphrase)

\* A passphrase long enough to wrap twice around a 16-byte key.
C10_Witness ==
  /\ key # NoKey
  /\ size = AES128
  /\ Len(passphrase) > 2 * BlockSize

(***************************************************************************)
(* The claims on the traversal.                                            *)
(***************************************************************************)

\* The last step on the graph was a struct call in direction dir.
StructCallOf(dir) ==
  /\ calls # <<>>
  /\ LastCall.op = (IF dir = "enc" THEN "EncryptStruct" ELSE "DecryptStruct")

StructCalled == StructCallOf("enc") \/ StructCallOf("dec")

\* The instance is a non-nil pointer to a struct.
ValidInstance ==
  instance.kind = "ptr" /\ instance.elem = "struct" /\ instance.val # Nil

NotAPointerErrors ==
  {"must receive a pointer, but received struct",
   "must receive a pointer, but received string",
   "must receive a pointer, but received int"}
NotAStructErrors ==
  {"must receive a pointer to a struct, but received string",
   "must receive a pointer to a struct, but received int",
   "must receive a pointer to a struct, but received ptr"}

\* C4: EncryptStruct and DecryptStruct check their argument before any
\* mutation: a bare value is rejected with the not-a-pointer error, a pointer
\* to a non-struct with the not-a-struct error, both returning (nil, error)
\* with the argument and everything it points to unchanged.
C4_Preconditions ==
  StructCalled =>
    /\ instance.kind # "ptr" =>
         /\ LastCall.err \in NotAPointerErrors
         /\ LastCall.ret = Nil
         /\ heap = before
    /\ (instance.kind = "ptr" /\ instance.elem # "struct") =>
         /\ LastCall.err \in NotAStructErrors
         /\ LastCall.ret = Nil
         /\ heap = before

\* DecryptStruct has rejected a pointer to a string, whose string is as it was.
C4_Witness ==
  /\ StructCallOf("dec")
  /\ instance.kind = "ptr" /\ instance.elem = "string"
  /\ LastCall.err \in NotAStructErrors
  /\ heap[instance.val].val = Value2

\* The string operation applied n times to v, the result of each the argument
\* of the next: [ret, err], err the first error met.
RECURSIVE Times(_, _, _, _)
Times(dir, k, n, r) ==
  IF n = 0 \/ r.err # ErrNil THEN r
  ELSE Times(dir, k, n - 1, cryptString(dir, k, r.ret))

\* The entries of the fields the traversal acts on: settable and tagged "true".
Selected(e) == e.settable /\ e.tagged

\* How often cell c is reached through a selected field among entries 1..n.
Reached(entries, n, c) ==
  Cardinality({j \in 1..n : /\ entries[j].what = "string"
                            /\ Selected(entries[j])
                            /\ entries[j].cell = c})

\* The string at cell c is what n string operations make of its old value.
HoldsTimes(dir, n, c) ==
  IF n = 0 THEN cellValue(heap, c) = cellValue(before, c)
  ELSE Times(dir, key, n, [ret |-> cellValue(before, c), err |-> ErrNil])
         = [ret |-> cellValue(heap, c), err |-> ErrNil]

\* The claim of C5 as it was made, for the call in direction dir: every string
\* leaf holds the transformed old value when its field is tagged "true", and
\* its old value otherwise.
LeavesAsClaimed(dir, entries) ==
  \A j \in 1..Len(entries) :
    entries[j].what = "string" =>
      HoldsTimes(dir, IF entries[j].tagged THEN 1 ELSE 0, entries[j].cell)

\* C5 as claimed: after a successful EncryptStruct (DecryptStruct) every string
\* or non-nil pointer-to-string leaf reachable through struct fields, non-nil
\* pointers to structs and embedded structs holds Encrypt(old) (Decrypt(old))
\* if its own field is tagged crypt:"true", and its old value if not.
C5_AsClaimed ==
  /\ (StructCallOf("enc") /\ ValidInstance /\ LastCall.err = ErrNil)
       => LeavesAsClaimed("enc", Met(before, instance))
  /\ (StructCallOf("dec") /\ ValidInstance /\ LastCall.err = ErrNil)
       => LeavesAsClaimed("dec", Met(before, instance))

\* What holds of every string leaf: one string operation for every selected
\* field that reaches its string.
LeavesTransformed(dir, entries) ==
  \A j \in 1..Len(entries) :
    entries[j].what = "string" =>
      HoldsTimes(dir, Reached(entries, Len(entries), entries[j].cell),
                 entries[j].cell)

\* C5, amended: after a successful EncryptStruct (DecryptStruct) every string
\* leaf reachable through struct fields, non-nil pointers to structs and
\* embedded structs holds its old value with Encrypt (Decrypt) applied once
\* for every selected field that reaches its string: a field tagged
\* crypt:"true" that is exported, as is every struct field on the way to it.
\* So a string reached through one such field holds Encrypt(old), a string
\* reached through none (untagged, tagged otherwise, unexported, or inside an
\* unexported struct) holds its old value, and a string two selected pointers
\* share is transformed twice.  The call returns the pointer it was given.
C5_Leaves ==
  /\ (StructCallOf("enc") /\ ValidInstance /\ LastCall.err = ErrNil)
       => (LeavesTransformed("enc", Met(before, instance))
           /\ LastCall.ret = instance.val)
  /\ (StructCallOf("dec") /\ ValidInstance /\ LastCall.err = ErrNil)
       => (LeavesTransformed("dec", Met(before, instance))
           /\ LastCall.ret = instance.val)

\* EncryptStruct has returned on testRecursiveStructPointer: its own tagged
\* string and the tagged string of the struct held by value inside the
\* pointed-to struct are what the tests expect, the untagged one beside it is
\* as it was.
C5_Witness ==
  /\ StructCallOf("enc") /\ ValidInstance /\ LastCall.err = ErrNil
  /\ Len(heap) = 2
  /\ heap[2].kind = "struct"
  /\ Len(heap[2].val) = 3
  /\ heap[2].val[3].kind = "struct"
  /\ heap[1].val[1].val = EncryptedSuperValue1
  /\ heap[2].val[3].val[1].val = EncryptedValue1
  /\ heap[2].val[3].val[2].val = Value2

\* C6: EncryptStruct on an instance it accepts, then DecryptStruct on the
\* result, succeeds and restores every field at every depth.
C6_StructRoundTrip ==
  (/\ Len(calls) = 2
   /\ calls[1].op = "EncryptStruct" /\ calls[1].err = ErrNil
   /\ calls[2].op = "DecryptStruct")
    => (/\ calls[2].err = ErrNil
        /\ calls[2].ret = instance.val
        /\ heap = first)

\* The round trip of an instance with a struct behind a pointer.
C6_Witness ==
  /\ Len(calls) = 2
  /\ calls[1].op = "EncryptStruct" /\ calls[1].err = ErrNil
  /\ calls[2].op = "DecryptStruct" /\ calls[2].err = ErrNil
  /\ Len(heap) = 2
  /\ heap[2].kind = "struct"
  /\ heap = first
  /\ before # first

\* C7 as claimed, for EncryptStruct: when the traversal meets an exported field
\* tagged crypt:"true" that is neither a string, a pointer to a string, a
\* struct nor a pointer to a struct (an int, a pointer to an int), the call
\* fails with the unsupported-field-type error and returns (nil, error).
C7_AsClaimed ==
  (/\ StructCallOf("enc") /\ ValidInstance
   /\ \E e \in Range(Met(before, instance)) :
        Selected(e) /\ e.what \in {"other", "ptrother"})
    => (LastCall.err = ErrFieldType /\ LastCall.ret = Nil)

\* The string at the cell of entry f fails in direction dir after the n
\* operations the entries before f have made on it, with the error err.
FailsAt(dir, entries, f, err) ==
  /\ Selected(entries[f])
  /\ \/ entries[f].what = "other" /\ err = ErrFieldType
     \/ /\ entries[f].what = "string"
        /\ cellValue(heap, entries[f].cell) =
             Times(dir, key, Reached(entries, f - 1, entries[f].cell),
                   [ret |-> cellValue(before, entries[f].cell), err |-> ErrNil]).ret
        /\ cryptString(dir, key, cellValue(heap, entries[f].cell)).err = err

\* The traversal stopped at entry f: each string holds what the selected
\* fields met before f made of it, and nothing met from f on was applied.
StoppedAt(dir, entries, f, err) ==
  /\ FailsAt(dir, entries, f, err)
  /\ \A j \in 1..Len(entries) :
       entries[j].what = "string" =>
         HoldsTimes(dir, Reached(entries, f - 1, entries[j].cell), entries[j].cell)

\* C8: when a field fails during EncryptStruct or DecryptStruct (a Decrypt
\* error on a selected leaf, a selected field of an unsupported kind, at any
\* depth) the call returns (nil, error) and the traversal has stopped at that
\* field: the selected leaves met before it in depth-first declaration order
\* keep their transformed value, and nothing from it on is changed.
C8_Partial ==
  /\ (StructCallOf("enc") /\ ValidInstance /\ LastCall.err # ErrNil)
       => /\ LastCall.ret = Nil
          /\ \E f \in 1..Len(Met(before, instance)) :
               StoppedAt("enc", Met(before, instance), f, LastCall.err)
  /\ (StructCallOf("dec") /\ ValidInstance /\ LastCall.err # ErrNil)
       => /\ LastCall.ret = Nil
          /\ \E f \in 1..Len(Met(before, instance)) :
               StoppedAt("dec", Met(before, instance), f, LastCall.err)

\* DecryptStruct has failed on the third field of a TestStruct after it
\* decrypted the first.
C8_Witness ==
  /\ StructCallOf("dec") /\ ValidInstance
  /\ LastCall.err = ErrInvalidAlgorithm
  /\ Len(heap) = 1
  /\ Len(heap[1].val) = 3
  /\ heap[1].val[1].val = Value1
  /\ before[1].val[1].val # Value1
  /\ heap[1].val[3].val = before[1].val[3].val

\* What the call of goroutine c returns when it runs alone.
Alone(c) ==
  IF callers[c].op = "Encrypt" THEN Encrypt(key, callers[c].arg)
  ELSE Decrypt(key, callers[c].arg)

\* C9: the key of an engine is the one its construction made, whatever
\* Encrypt, Decrypt, EncryptStruct and DecryptStruct calls have run since, and
\* every Encrypt or Decrypt call that has returned, however its steps were
\* interleaved with those of the other goroutines' calls on the engine,
\* returned what the same call returns when it runs alone.
C9_Concurrent ==
  /\ key # NoKey => key = NewAESECB(size, passphrase)
  /\ \A c \in 1..NumCallers :
       callers[c].pc = "done" =>
         [ret |-> callers[c].ret, err |-> callers[c].err] = Alone(c)

\* An Encrypt call has returned its ciphertext while the block loop of another
\* goroutine's Decrypt call is half way.
C9_Witness ==
  /\ \E c, d \in 1..NumCallers :
       /\ c # d
       /\ callers[c].pc = "done" /\ callers[c].op = "Encrypt"
       /\ callers[c].ret = EncryptedLongText
       /\ callers[d].pc = "loop" /\ callers[d].op = "Decrypt" /\ callers[d].b = 2

(***************************************************************************)
(* The claim on structures that reach themselves.                          *)
(***************************************************************************)

\* The structs the non-nil pointer-to-struct fields among fields point to,
\* those of the structs held by value included; with settable, only through
\* exported fields.
RECURSIVE pointees(_, _)
pointees(fields, settable) ==
  UNION {IF settable /\ ~fields[i].exported THEN {}
         ELSE IF fields[i].kind = "struct" THEN pointees(fields[i].val, settable)
         ELSE IF fields[i].kind = "ptr" /\ fields[i].elem = "struct"
                 /\ fields[i].val # Nil THEN {fields[i].val}
         ELSE {} : i \in 1..Len(fields)}

\* The structs reached from those of set S in n pointers or fewer.
RECURSIVE within(_, _, _, _)
within(h, settable, S, n) ==
  IF n = 0 THEN S
  ELSE within(h, settable,
              S \cup UNION {pointees(h[a].val, settable) : a \in S}, n - 1)

\* The structs reached from struct a in one pointer or more.
Beyond(h, settable, a) ==
  within(h, settable, pointees(h[a].val, settable), Len(h))

\* The structure behind the instance holds a struct that reaches itself.
SelfReferential(settable) ==
  \E a \in {instance.val} \cup Beyond(heap, settable, instance.val) :
    a \in Beyond(heap, settable, a)

\* C11 as claimed, its first half: a call of EncryptStruct or DecryptStruct on
\* a structure with a struct that reaches itself through non-nil
\* pointer-to-struct fields never returns.
C11_AsClaimed ==
  walk.pc = "returned" => ~SelfReferential(FALSE)

\* The steps the call for the struct at addr/path takes from field i to its
\* return when no field fails, the steps of the calls it makes included.
RECURSIVE stepsFrom(_, _, _, _)
calleeOf(h, addr, path, i) ==
  entered([addr |-> addr, path |-> path, i |-> i], fieldsAt(h, addr, path)[i])
stepsFrom(h, addr, path, i) ==
  IF i > Len(fieldsAt(h, addr, path)) THEN 1
  ELSE IF enters(fieldsAt(h, addr, path)[i])
    THEN 1 + stepsFrom(h, calleeOf(h, addr, path, i).addr,
                       calleeOf(h, addr, path, i).path, 1)
           + stepsFrom(h, addr, path, i + 1)
  ELSE 1 + stepsFrom(h, addr, path, i + 1)

\* The steps the calls on the stack have left: those of the innermost from
\* the field it is at, those of every other from the field after.
RECURSIVE stepsLeft(_, _, _)
stepsLeft(h, st, j) ==
  IF j > Len(st) THEN 0
  ELSE stepsFrom(h, st[j].addr, st[j].path,
                 IF j = Len(st) THEN st[j].i ELSE st[j].i + 1)
         + stepsLeft(h, st, j + 1)

\* The innermost call is about to call EncryptStruct / DecryptStruct again.
AboutToEnter ==
  /\ walk.pc = "running"
  /\ ~atEnd(heap, stack[Len(stack)])
  /\ enters(fieldAt(heap, stack[Len(stack)]))

\* C11, amended: the traversal has no cycle guard.  On a structure with a
\* struct that reaches itself through exported non-nil pointer-to-struct
\* fields, reached through exported fields only, a call of EncryptStruct or
\* DecryptStruct never returns with a nil error: it calls itself ever deeper
\* unless a field fails on the way, which ends the call with that field's
\* error.  On every structure without such a struct the call returns: the
\* calls never get MaxDepth deep, and every step of the traversal leaves
\* fewer steps to its return.
C11_NoCycleGuard ==
  /\ []((walk.pc = "returned" /\ walk.err = ErrNil) => ~SelfReferential(TRUE))
  /\ []((AboutToEnter /\ ~SelfReferential(TRUE)) => Len(stack) < MaxDepth)
  /\ [][(walk.pc = "running" /\ ~SelfReferential(TRUE))
          => stepsLeft(heap', stack', 1) < stepsLeft(heap, stack, 1)]_vars

\* EncryptStruct is MaxDepth calls deep in a struct that points to itself, the
\* innermost call on the struct of the outermost, whose string every call so
\* far has encrypted again.
C11_Witness ==
  /\ walk.pc = "running" /\ walk.dir = "enc"
  /\ SelfReferential(TRUE)
  /\ Len(stack) = MaxDepth
  /\ stack[MaxDepth].addr = stack[1].addr
  /\ stack[MaxDepth].path = stack[1].path
  /\ heap[1].val[1].kind = "string"
  /\ Len(heap[1].val[1].val) >= BlockSize * (MaxDepth - 1)

====
